---- MODULE Spec2Model ----
(***************************************************************************)
(* Model of main.py: the Flask handlers /generate-report,                  *)
(* /get-value-for-label and /analyze-gdt-at-point, and the retry wrapper   *)
(* generate_with_retry they share.  One request is in flight at a time     *)
(* (the server keeps no state between requests); the oracle               *)
(* (model.generate_content) answers each call nondeterministically.        *)
(***************************************************************************)
EXTENDS Naturals, Sequences, FiniteSets, TLC

\* ---------------------------------------------------------------- bounds
MaxPages == 2          \* longest page sequence of an uploaded report file
MaxPageCount == 3      \* largest page count of a drawing sent to the GD&T analyzer

\* ------------------------------------------------------- program constants
max_retries == 3       \* generate_with_retry(model, prompt, max_retries=3, ...)

\* Python's None: the extractors' failure value and the initial table_columns.
\* It is a sequence so that it can be compared with texts and column lists,
\* and it is none of them (no text or column list contains the cell "None").
None == <<"None">>

\* ------------------------------------------------------------ page texts
Whitespace == {" ", "\n"}

RECURSIVE lstrip(_)
lstrip(s) ==
    IF s = <<>> THEN <<>>
    ELSE IF Head(s) \in Whitespace THEN lstrip(Tail(s)) ELSE s

RECURSIVE rstrip(_)
rstrip(s) ==
    IF s = <<>> THEN <<>>
    ELSE IF s[Len(s)] \in Whitespace THEN rstrip(SubSeq(s, 1, Len(s) - 1)) ELSE s

\* str.strip(): leading and trailing whitespace removed
strip(s) == rstrip(lstrip(s))

\* the guard of line 134 broken: only the empty string is skipped
IsBlankOnlyEmpty(page_text) == page_text = <<>>

\* `not page_text.strip()` (line 134)
IsBlank(page_text) == strip(page_text) = <<>>

\* texts a page can carry: empty, whitespace only, text with leading whitespace
PageTexts == { <<>>, <<" ", "\n">>, <<" ", "a">> }

SeqsUpTo(S, n) == UNION { [1..k -> S] : k \in 0..n }

\* ------------------------------------------------------ the oracle's JSON
Headers ==
    { <<>>, [X |-> "1"], [X |-> "2"], [X |-> "1", Y |-> "2"] }

ColumnLists == { <<>>, <<"A">>, <<"B">> }

RowLists == { <<>>, << <<"a">> >>, << <<"b">>, <<"a">> >> }

\* what the prompt of lines 114-130 asks for: {header, table: {columns, rows}}
PageJsons ==
    [header : Headers, table : [columns : ColumnLists, rows : RowLists]]

\* what the prompt of lines 374-386 asks for
LabelJsons == { [parameter |-> "HOSE_ID", value |-> "24.6"] }

\* what the prompt of lines 202-231 asks for
GdtJsons == { [gdt_symbol_name |-> "Position", tolerance_value |-> "9"] }

\* the ways one model.generate_content + json.loads can fail (line 42)
Failures == { "ResourceExhausted", "ServiceUnavailable", "JSONDecodeError" }

\* ---------------------------------------------------------------- requests
NoFile ==
    [has_file |-> FALSE, has_fields |-> FALSE, kind |-> "txt", corrupt |-> FALSE,
     texts |-> <<>>, page_num |-> 0]

File(kind, corrupt, texts) ==
    [has_file |-> TRUE, has_fields |-> TRUE, kind |-> kind, corrupt |-> corrupt,
     texts |-> texts, page_num |-> 0]

ReportRequests ==
    {NoFile}
    \cup { File("pdf", FALSE, t) : t \in SeqsUpTo(PageTexts, MaxPages) }
    \cup { File("pdf", TRUE, <<>>), File("docx", TRUE, <<>>) }
    \cup { File(k, FALSE, <<t>>) : k \in {"docx", "txt"}, t \in PageTexts }

LabelRequests ==
    {NoFile}
    \cup { [File("pdf", FALSE, <<t>>) EXCEPT !.has_fields = f] :
              t \in PageTexts, f \in BOOLEAN }
    \cup { File("pdf", FALSE, <<>>), File("pdf", TRUE, <<>>) }

Drawing(n) == [k \in 1..n |-> <<" ", "a">>]

GdtRequests ==
    {NoFile}
    \cup { [File("pdf", FALSE, Drawing(n)) EXCEPT !.page_num = p, !.has_fields = f] :
              n \in 0..MaxPageCount, p \in 0..(MaxPageCount + 1), f \in BOOLEAN }
    \cup { [File("pdf", TRUE, <<>>) EXCEPT !.page_num = p] : p \in 0..1 }

\* --------------------------------------------------------------- responses
NoError == [msg |-> "", detail |-> ""]

\* jsonify({"error": msg}), status ; detail is the str(e) of an f-string message
Error(status, msg, detail) ==
    [status |-> status, error |-> [msg |-> msg, detail |-> detail], json |-> <<>>]

\* jsonify(value), 200
Ok(value) == [status |-> 200, error |-> NoError, json |-> value]

NoResponse == [status |-> 0, error |-> NoError, json |-> <<>>]

VARIABLES
    GEMINI_API_KEY,     \* line 72: TRUE iff the credential is configured
    endpoint,           \* the route of the request in flight
    request,            \* its upload and form fields
    pc,                 \* position of the handler
    source_pages,       \* generate_report_handler: extracted page texts
    i,                  \* index (1-based) of the page the loop is at
    aggregated_header,
    aggregated_rows,
    table_columns,
    page_json,          \* value returned by the last successful oracle call
    attempt,            \* generate_with_retry: loop variable
    calls,              \* oracle calls made by the current generate_with_retry
    fails,              \* how many of them failed
    exc,                \* exception that left generate_with_retry ("" if none)
    oracle_calls,       \* oracle calls made for the request in flight
    rasterized,         \* page.get_pixmap calls made for the request in flight
    oracle_results,     \* values the oracle has returned for this request, in call order
    response

vars ==
    << GEMINI_API_KEY, endpoint, request, pc, source_pages, i, aggregated_header,
       aggregated_rows, table_columns, page_json, attempt, calls, fails, exc,
       oracle_calls, rasterized, oracle_results, response >>

\* ---------------------------------------------------------- text extractor
\* lines 17-24
extract_text_from_pdf_paginated(file) ==
    IF file.corrupt THEN None ELSE file.texts

\* lines 27-33
extract_text_from_docx(file) ==
    IF file.corrupt THEN None ELSE file.texts[1]

\* lines 88-93
ExtractPages(file) ==
    IF file.kind = "pdf" THEN extract_text_from_pdf_paginated(file)
    ELSE IF file.kind = "docx" THEN << extract_text_from_docx(file) >>
    ELSE << file.texts[1] >>

\* `not source_pages` (line 95): None or the empty list
NotSourcePages(pages) == pages = None \/ pages = <<>>

\* ------------------------------------------------------------------ merging
\* dict.update
Update(a, b) ==
    [k \in (DOMAIN a) \cup (DOMAIN b) |-> IF k \in DOMAIN b THEN b[k] ELSE a[k]]

\* header merge that keeps the first value of a key
MergeHeaderFirstWins(header, pj) ==
    IF pj.header # <<>> THEN Update(pj.header, header) ELSE header

\* lines 142-143
MergeHeader(header, pj) ==
    IF pj.header # <<>> THEN Update(header, pj.header) ELSE header

\* lines 145-147
MergeColumns(columns, pj) ==
    IF pj.table.rows # <<>> /\ columns = None /\ pj.table.columns # <<>>
    THEN pj.table.columns ELSE columns

\* rows of a page put in front of the earlier ones
MergeRowsPrepend(rows, pj) ==
    IF pj.table.rows # <<>> THEN pj.table.rows \o rows ELSE rows

\* lines 145, 148
MergeRows(rows, pj) ==
    IF pj.table.rows # <<>> THEN rows \o pj.table.rows ELSE rows

\* line 150
FinalColumns(columns) == IF columns = None THEN <<>> ELSE columns

\* a handler that answers with what it had gathered when the invoker raised
ReportFailurePartial(header, columns, rows) ==
    Ok([header |-> header,
        table |-> [columns |-> FinalColumns(columns), rows |-> rows]])

\* lines 157-159
ReportFailure(header, columns, rows) ==
    Error(500, "Failed to generate report from AI model.", "")

\* ------------------------------------------------------------ retry wrapper
\* one attempt fewer than max_retries
RetryAgainShort(a) == a + 1 < max_retries - 1

\* line 44
RetryAgain(a) == a < max_retries - 1

\* ------------------------------------------------------------- GD&T bounds
\* page 0 let through
InvalidPageFromZero(page_num, page_count) == page_num + 1 < 1 \/ page_num > page_count

\* line 180
InvalidPage(page_num, page_count) == page_num < 1 \/ page_num > page_count

\* ---------------------------------------------------------------------- Init
Init ==
    /\ GEMINI_API_KEY \in BOOLEAN
    /\ endpoint = "none"
    /\ request = NoFile
    /\ pc = "idle"
    /\ source_pages = <<>>
    /\ i = 1
    /\ aggregated_header = <<>>
    /\ aggregated_rows = <<>>
    /\ table_columns = None
    /\ page_json = <<>>
    /\ attempt = 0
    /\ calls = 0
    /\ fails = 0
    /\ exc = ""
    /\ oracle_calls = 0
    /\ rasterized = 0
    /\ oracle_results = <<>>
    /\ response = NoResponse

\* the per-request state: locals of the handler and the test doubles' counters
Fresh ==
    /\ source_pages' = <<>>
    /\ i' = 1
    /\ aggregated_header' = <<>>
    /\ aggregated_rows' = <<>>
    /\ table_columns' = None
    /\ page_json' = <<>>
    /\ attempt' = 0
    /\ calls' = 0
    /\ fails' = 0
    /\ exc' = ""
    /\ oracle_calls' = 0
    /\ rasterized' = 0
    /\ oracle_results' = <<>>
    /\ response' = NoResponse

\* a request arrives at a route
Receive(ep, req) ==
    /\ pc = "idle"
    /\ endpoint' = ep
    /\ request' = req
    /\ pc' = "start"
    /\ Fresh
    /\ UNCHANGED GEMINI_API_KEY

\* the response has been sent: the server keeps nothing of the request but the
\* process-wide credential
Return ==
    /\ pc = "done"
    /\ pc' = "idle"
    /\ endpoint' = "none"
    /\ request' = NoFile
    /\ Fresh
    /\ UNCHANGED GEMINI_API_KEY

ReceiveReport == \E req \in ReportRequests : Receive("report", req)
ReceiveLabel == \E req \in LabelRequests : Receive("label", req)
ReceiveGdt == \E req \in GdtRequests : Receive("gdt", req)

Respond(r) ==
    /\ response' = r
    /\ pc' = "done"

\* entry of generate_with_retry (line 35-36)
EnterRetry ==
    /\ pc' = "invoke"
    /\ attempt' = 0
    /\ calls' = 0
    /\ fails' = 0

\* ------------------------------------------------- generate_report_handler
\* lines 80-99
ReportExtract ==
    /\ pc = "start" /\ endpoint = "report"
    /\ IF ~request.has_file
       THEN Respond(Error(400, "Source file is missing", "")) /\ UNCHANGED source_pages
       ELSE IF NotSourcePages(ExtractPages(request))
       THEN /\ Respond(Error(500, "Could not extract text from the source file.", ""))
            /\ source_pages' = ExtractPages(request)
       ELSE /\ source_pages' = ExtractPages(request)
            /\ pc' = "report_config"
            /\ UNCHANGED response
    /\ UNCHANGED << GEMINI_API_KEY, endpoint, request, i, aggregated_header,
                    aggregated_rows, table_columns, page_json, attempt, calls,
                    fails, exc, oracle_calls, rasterized, oracle_results >>

\* lines 101-111
ReportConfig ==
    /\ pc = "report_config"
    /\ IF ~GEMINI_API_KEY
       THEN /\ Respond(Error(500, "Gemini API key is not configured.", ""))
            /\ UNCHANGED << aggregated_header, aggregated_rows, table_columns, i >>
       ELSE /\ aggregated_header' = <<>>
            /\ aggregated_rows' = <<>>
            /\ table_columns' = None
            /\ i' = 1
            /\ pc' = "report_loop"
            /\ UNCHANGED response
    /\ UNCHANGED << GEMINI_API_KEY, endpoint, request, source_pages, page_json,
                    attempt, calls, fails, exc, oracle_calls, rasterized, oracle_results >>

\* lines 132-139: the head of the loop, for one page
ReportPage ==
    /\ pc = "report_loop"
    /\ i <= Len(source_pages)
    /\ IF source_pages[i] = None
       THEN \* None.strip() raises AttributeError, caught at line 157
            /\ Respond(Error(500, "Failed to generate report from AI model.", ""))
            /\ UNCHANGED << i, attempt, calls, fails >>
       ELSE IF IsBlank(source_pages[i])
       THEN /\ i' = i + 1
            /\ UNCHANGED << pc, response, attempt, calls, fails >>
       ELSE /\ EnterRetry
            /\ UNCHANGED << i, response >>
    /\ UNCHANGED << GEMINI_API_KEY, endpoint, request, source_pages,
                    aggregated_header, aggregated_rows, table_columns, page_json,
                    exc, oracle_calls, rasterized, oracle_results >>

\* lines 140-148: merge the page's result
ReportMerge ==
    /\ pc = "returned" /\ endpoint = "report"
    /\ aggregated_header' = MergeHeader(aggregated_header, page_json)
    /\ table_columns' = MergeColumns(table_columns, page_json)
    /\ aggregated_rows' = MergeRows(aggregated_rows, page_json)
    /\ i' = i + 1
    /\ pc' = "report_loop"
    /\ UNCHANGED << GEMINI_API_KEY, endpoint, request, source_pages, page_json,
                    attempt, calls, fails, exc, oracle_calls, rasterized,
                    oracle_results, response >>

\* lines 150-155
ReportFinish ==
    /\ pc = "report_loop"
    /\ i > Len(source_pages)
    /\ table_columns' = FinalColumns(table_columns)
    /\ Respond(Ok([header |-> aggregated_header,
                   table |-> [columns |-> FinalColumns(table_columns),
                              rows |-> aggregated_rows]]))
    /\ UNCHANGED << GEMINI_API_KEY, endpoint, request, source_pages, i,
                    aggregated_header, aggregated_rows, page_json, attempt, calls,
                    fails, exc, oracle_calls, rasterized, oracle_results >>

\* lines 157-159: generate_with_retry raised
ReportExcept ==
    /\ pc = "raised" /\ endpoint = "report"
    /\ Respond(ReportFailure(aggregated_header, table_columns, aggregated_rows))
    /\ UNCHANGED << GEMINI_API_KEY, endpoint, request, source_pages, i,
                    aggregated_header, aggregated_rows, table_columns, page_json,
                    attempt, calls, fails, exc, oracle_calls, rasterized, oracle_results >>

\* ----------------------------------------------------- generate_with_retry
OracleJsons(ep) ==
    IF ep = "report" THEN PageJsons ELSE IF ep = "label" THEN LabelJsons ELSE GdtJsons

\* lines 36-41: the call answers with valid JSON, which is returned
GenerateOk ==
    /\ pc = "invoke"
    /\ attempt < max_retries
    /\ \E value \in OracleJsons(endpoint) :
          /\ page_json' = value
          /\ oracle_results' = Append(oracle_results, value)
    /\ calls' = calls + 1
    /\ oracle_calls' = oracle_calls + 1
    /\ pc' = "returned"
    /\ UNCHANGED << GEMINI_API_KEY, endpoint, request, source_pages, i,
                    aggregated_header, aggregated_rows, table_columns, attempt,
                    fails, exc, rasterized, response >>

\* lines 36-47: the call or the JSON validation raises
GenerateFail ==
    /\ pc = "invoke"
    /\ attempt < max_retries
    /\ calls' = calls + 1
    /\ fails' = fails + 1
    /\ oracle_calls' = oracle_calls + 1
    /\ \E e \in Failures :
          IF RetryAgain(attempt)
          THEN attempt' = attempt + 1 /\ UNCHANGED << pc, exc >>
          ELSE exc' = e /\ pc' = "raised" /\ UNCHANGED attempt
    /\ UNCHANGED << GEMINI_API_KEY, endpoint, request, source_pages, i,
                    aggregated_header, aggregated_rows, table_columns, page_json,
                    rasterized, oracle_results, response >>

\* ------------------------------------------------ get_value_for_label_handler
RECURSIVE Join(_)
\* "".join(texts)
Join(texts) == IF texts = <<>> THEN <<>> ELSE Head(texts) \o Join(Tail(texts))

\* lines 351-389: validation, text extraction, then straight into the invoker
LabelExtract ==
    /\ pc = "start" /\ endpoint = "label"
    /\ IF ~request.has_file \/ ~request.has_fields
       THEN /\ Respond(Error(400, "Missing source file or label", ""))
            /\ UNCHANGED << attempt, calls, fails >>
       ELSE IF request.corrupt
       THEN /\ Respond(Error(500, "Failed to process file: ", "FileDataError"))
            /\ UNCHANGED << attempt, calls, fails >>
       ELSE IF Join(request.texts) = <<>>
       THEN /\ Respond(Error(500, "Could not extract text from source file.", ""))
            /\ UNCHANGED << attempt, calls, fails >>
       ELSE /\ EnterRetry
            /\ UNCHANGED response
    /\ UNCHANGED << GEMINI_API_KEY, endpoint, request, source_pages, i,
                    aggregated_header, aggregated_rows, table_columns, page_json,
                    exc, oracle_calls, rasterized, oracle_results >>

\* lines 390-392
LabelReturn ==
    /\ pc = "returned" /\ endpoint = "label"
    /\ Respond(Ok(page_json))
    /\ UNCHANGED << GEMINI_API_KEY, endpoint, request, source_pages, i,
                    aggregated_header, aggregated_rows, table_columns, page_json,
                    attempt, calls, fails, exc, oracle_calls, rasterized, oracle_results >>

\* lines 394-396
LabelExcept ==
    /\ pc = "raised" /\ endpoint = "label"
    /\ Respond(Error(500, "AI processing failed: ", exc))
    /\ UNCHANGED << GEMINI_API_KEY, endpoint, request, source_pages, i,
                    aggregated_header, aggregated_rows, table_columns, page_json,
                    attempt, calls, fails, exc, oracle_calls, rasterized, oracle_results >>

\* ----------------------------------------------- analyze_gdt_at_point_handler
\* lines 167-181: validation, fitz.open, page bound check
GdtOpen ==
    /\ pc = "start" /\ endpoint = "gdt"
    /\ IF ~request.has_file \/ ~request.has_fields
       THEN Respond(Error(400, "Missing source file or coordinate data", ""))
       ELSE IF request.corrupt
       THEN Respond(Error(500, "Failed to analyze GD&T feature: ", "FileDataError"))
       ELSE IF InvalidPage(request.page_num, Len(request.texts))
       THEN Respond(Error(400, "Invalid page number", ""))
       ELSE pc' = "gdt_render" /\ UNCHANGED response
    /\ UNCHANGED << GEMINI_API_KEY, endpoint, request, source_pages, i,
                    aggregated_header, aggregated_rows, table_columns, page_json,
                    attempt, calls, fails, exc, oracle_calls, rasterized, oracle_results >>

\* lines 183-196: load the page, rasterize the crop
GdtRender ==
    /\ pc = "gdt_render"
    /\ rasterized' = rasterized + 1
    /\ pc' = "gdt_call"
    /\ UNCHANGED << GEMINI_API_KEY, endpoint, request, source_pages, i,
                    aggregated_header, aggregated_rows, table_columns, page_json,
                    attempt, calls, fails, exc, oracle_calls, oracle_results, response >>

\* lines 198-237: one oracle call, answered with valid JSON
GdtCallOk ==
    /\ pc = "gdt_call"
    /\ oracle_calls' = oracle_calls + 1
    /\ \E value \in OracleJsons(endpoint) :
          /\ page_json' = value
          /\ oracle_results' = Append(oracle_results, value)
          /\ Respond(Ok(value))
    /\ UNCHANGED << GEMINI_API_KEY, endpoint, request, source_pages, i,
                    aggregated_header, aggregated_rows, table_columns, attempt,
                    calls, fails, exc, rasterized >>

\* lines 233-241: the call or json.loads raises
GdtCallFail ==
    /\ pc = "gdt_call"
    /\ oracle_calls' = oracle_calls + 1
    /\ \E e \in Failures :
          /\ exc' = e
          /\ Respond(Error(500, "Failed to analyze GD&T feature: ", e))
    /\ UNCHANGED << GEMINI_API_KEY, endpoint, request, source_pages, i,
                    aggregated_header, aggregated_rows, table_columns, page_json,
                    attempt, calls, fails, rasterized, oracle_results >>

Next ==
    \/ ReceiveReport
    \/ ReceiveLabel
    \/ ReceiveGdt
    \/ Return
    \/ ReportExtract
    \/ ReportConfig
    \/ ReportPage
    \/ ReportMerge
    \/ ReportFinish
    \/ ReportExcept
    \/ GenerateOk
    \/ GenerateFail
    \/ LabelExtract
    \/ LabelReturn
    \/ LabelExcept
    \/ GdtOpen
    \/ GdtRender
    \/ GdtCallOk
    \/ GdtCallFail

Spec == Init /\ [][Next]_vars

TypeOK ==
    /\ GEMINI_API_KEY \in BOOLEAN
    /\ attempt \in 0..(max_retries - 1)
    /\ response.status \in {0, 200, 400, 500}

\* ------------------------------------------------------------------ claims
ReportDone == endpoint = "report" /\ pc = "done"

ReportSucceeded == ReportDone /\ response.status = 200

\* a text of whitespace characters only (the empty text included)
WhitespaceOnly(t) == \A k \in 1..Len(t) : t[k] \in Whitespace

\* the upload was parsed into a sequence of page texts
PageTextSequence == request.has_file /\ ~request.corrupt

AllPagesBlank == \A k \in 1..Len(request.texts) : WhitespaceOnly(request.texts[k])

EmptyReport == [header |-> <<>>, table |-> [columns |-> <<>>, rows |-> <<>>]]

ConfigError == Error(500, "Gemini API key is not configured.", "")

\* C1: generate_with_retry never makes more than max_retries oracle calls; when
\* it returns after max_retries - 1 failed calls it has made exactly max_retries
\* calls; when it raises it has made exactly max_retries calls, all failed, and
\* once it has raised no further call is made (the invoker is never re-entered).
RetryBound ==
    /\ calls <= max_retries
    /\ (pc = "returned" /\ fails = max_retries - 1) => calls = max_retries
    /\ pc = "raised" => (calls = max_retries /\ fails = max_retries)
    /\ (endpoint \in {"report", "label"} /\ exc # "") =>
          (pc \in {"raised", "done"} /\ calls = max_retries)
    /\ fails = max_retries => pc \in {"raised", "done"}

RetryBoundWitness ==
    pc = "raised" /\ calls = max_retries /\ fails = max_retries

RetryBoundWitnessSuccess ==
    pc = "returned" /\ fails = max_retries - 1 /\ calls = max_retries

\* C2: in a two-page report whose page 1 result has no columns and whose page 2
\* result has a non-empty column list, the final columns are page 2's columns
\* and page 1's rows are still at the front of the final rows.
ColumnAdoption ==
    (/\ ReportSucceeded
     /\ Len(request.texts) = 2
     /\ Len(oracle_results) = 2
     /\ oracle_results[1].table.columns = <<>>
     /\ oracle_results[2].table.columns # <<>>)
    => /\ response.json.table.columns = oracle_results[2].table.columns
       /\ Len(response.json.table.rows) >= Len(oracle_results[1].table.rows)
       /\ SubSeq(response.json.table.rows, 1, Len(oracle_results[1].table.rows))
             = oracle_results[1].table.rows

\* C3 as stated: whenever every page of the page-text sequence is blank or
\* whitespace-only (the sequence with no pages included), generate-report
\* answers with the empty report and makes no oracle call.
AllBlankEmptyReport ==
    (ReportDone /\ PageTextSequence /\ AllPagesBlank)
    => (response = Ok(EmptyReport) /\ oracle_calls = 0)

\* C3 amended: whenever every page is blank or whitespace-only no oracle call is
\* made; the answer is the empty report when the sequence is non-empty and the
\* credential is configured, the extraction error when there are no pages, and
\* the configuration error when there are pages but no credential.
AllBlankNoOracle ==
    (ReportDone /\ PageTextSequence /\ AllPagesBlank)
    => /\ oracle_calls = 0
       /\ response =
             IF request.texts = <<>>
             THEN Error(500, "Could not extract text from the source file.", "")
             ELSE IF ~GEMINI_API_KEY THEN ConfigError
             ELSE Ok(EmptyReport)

AllBlankWitness ==
    /\ ReportDone /\ PageTextSequence /\ AllPagesBlank /\ GEMINI_API_KEY
    /\ Len(request.texts) = 2
    /\ request.texts[2] # <<>>
    /\ response = Ok(EmptyReport)

RECURSIVE ConcatRows(_)
ConcatRows(results) ==
    IF results = <<>> THEN <<>>
    ELSE Head(results).table.rows \o ConcatRows(Tail(results))

RECURSIVE SumRows(_)
SumRows(results) ==
    IF results = <<>> THEN 0
    ELSE Len(Head(results).table.rows) + SumRows(Tail(results))

NonBlankPages == { k \in 1..Len(request.texts) : ~WhitespaceOnly(request.texts[k]) }

\* C4: when generate-report succeeds, the oracle was called once per non-blank
\* page, the number of final rows is the sum of the row counts of those results
\* and the final rows are those results' rows concatenated in page order.
RowsConcatenated ==
    ReportSucceeded
    => /\ Len(oracle_results) = Cardinality(NonBlankPages)
       /\ Len(response.json.table.rows) = SumRows(oracle_results)
       /\ response.json.table.rows = ConcatRows(oracle_results)

RowsConcatenatedWitness ==
    /\ ReportSucceeded
    /\ Len(oracle_results) = 2
    /\ oracle_results[1].table.rows = << <<"b">>, <<"a">> >>
    /\ oracle_results[2].table.rows = << <<"a">> >>
    /\ Len(response.json.table.rows) = 3

HeaderKeys == UNION { DOMAIN oracle_results[k].header : k \in 1..Len(oracle_results) }

LastPageWith(key) ==
    CHOOSE k \in 1..Len(oracle_results) :
        /\ key \in DOMAIN oracle_results[k].header
        /\ \A j \in (k + 1)..Len(oracle_results) : key \notin DOMAIN oracle_results[j].header

\* C5: when generate-report succeeds, the final header has exactly the keys
\* that occur in some page's result, each mapped to the value given by the last
\* page (in page order) whose result contains the key.
HeaderLastWriteWins ==
    ReportSucceeded
    => /\ DOMAIN response.json.header = HeaderKeys
       /\ \A key \in HeaderKeys :
             response.json.header[key] = oracle_results[LastPageWith(key)].header[key]

HeaderLastWriteWinsWitness ==
    /\ ReportSucceeded
    /\ Len(oracle_results) = 2
    /\ oracle_results[1].header = [X |-> "1", Y |-> "2"]
    /\ oracle_results[2].header = [X |-> "2"]
    /\ response.json.header = [X |-> "2", Y |-> "2"]

\* C6: once the invoker has raised during generate-report, no further page is
\* sent to the oracle (the loop and the invoker are never re-entered) and the
\* response is the single error object, carrying no header entry and no row.
FailureDiscardsReport ==
    (endpoint = "report" /\ exc # "")
    => /\ pc \in {"raised", "done"}
       /\ i \in NonBlankPages
       /\ Len(oracle_results) = Cardinality({ k \in NonBlankPages : k < i })
       /\ pc = "done" =>
             response = Error(500, "Failed to generate report from AI model.", "")

FailureDiscardsReportWitness ==
    /\ ReportDone /\ exc # ""
    /\ Len(oracle_results) = 1
    /\ i = 2
    /\ aggregated_header # <<>>
    /\ aggregated_rows # <<>>
    /\ response.status = 500

\* the request passes input validation and extraction, so that serving it
\* takes an oracle call
NeedsOracle ==
    /\ request.has_file /\ request.has_fields
    /\ endpoint = "report" => ~NotSourcePages(ExtractPages(request))
    /\ endpoint = "label" => (~request.corrupt /\ Join(request.texts) # <<>>)
    /\ endpoint = "gdt" =>
          (/\ ~request.corrupt
           /\ request.page_num >= 1 /\ request.page_num <= Len(request.texts))

\* C7: with the credential absent no oracle call is ever made, the retry loop
\* is never entered, and every request that needs the oracle is answered with
\* the fixed configuration-error message.
ConfigShortCircuit ==
    ~GEMINI_API_KEY
    => /\ oracle_calls = 0
       /\ pc # "invoke"
       /\ (pc = "done" /\ NeedsOracle) => response = ConfigError

\* C8: when the retry loop is exhausted the response status tells the cause: a
\* quota/rate-limit failure gets a status other than the generic
\* upstream-failure status 500, any other failure gets 500.
ExhaustionStatus ==
    (pc = "done" /\ endpoint \in {"report", "label"} /\ exc # "")
    => IF exc = "ResourceExhausted"
       THEN response.status \notin {200, 500}
       ELSE response.status = 500

\* C9: a GD&T request on a readable document whose page number is below 1 or
\* above the page count is never rasterized and never reaches the oracle, and
\* it is answered with the client error "Invalid page number".
PageBoundCheck ==
    (/\ endpoint = "gdt"
     /\ request.has_file /\ request.has_fields /\ ~request.corrupt
     /\ (request.page_num < 1 \/ request.page_num > Len(request.texts)))
    => /\ rasterized = 0
       /\ oracle_calls = 0
       /\ pc \in {"start", "done"}
       /\ pc = "done" => response = Error(400, "Invalid page number", "")

PageBoundCheckWitness ==
    /\ endpoint = "gdt" /\ pc = "done"
    /\ request.has_file /\ request.has_fields /\ ~request.corrupt
    /\ Len(request.texts) = 3
    /\ request.page_num = 0
    /\ response.status = 400

\* some page merged before the one being merged supplied a column list
ColumnsSupplied ==
    \E k \in 1..(Len(oracle_results) - 1) : oracle_results[k].table.columns # <<>>

\* C10: once a page whose result supplies a non-empty column list has been
\* merged, merging any later page leaves the columns unchanged and only appends
\* rows.
ColumnsFixed ==
    [][(pc = "returned" /\ endpoint = "report" /\ ColumnsSupplied)
         => /\ table_columns' = table_columns
            /\ Len(aggregated_rows') >= Len(aggregated_rows)
            /\ SubSeq(aggregated_rows', 1, Len(aggregated_rows)) = aggregated_rows]_vars

\* C11: whenever the text extractor fails on the file uploaded to
\* generate-report (a PDF or a DOCX that cannot be parsed), the request is
\* answered with the extraction-failure error (status 500, no partial result),
\* whatever the file kind and whether or not the credential is configured, and
\* no oracle call is made.
ExtractionFailureReported ==
    (endpoint = "report" /\ request.has_file /\ request.corrupt)
    => /\ oracle_calls = 0
       /\ pc = "done" =>
             response = Error(500, "Could not extract text from the source file.", "")
====
